---- MODULE Spec2Model ----
(***************************************************************************)
(* Verification model of the RAG core of open-notebook:                    *)
(*   - EmbeddingService (src/core/embedding.rs): lazy model load behind a  *)
(*     tokio RwLock<Option<TextEmbedding>>, inference on a ptr::read copy. *)
(*   - chunk_text / Document::chunk (src/core/document.rs).                *)
(*   - VectorStore (src/core/vector_store.rs) and RagEngine                *)
(*     (src/core/rag.rs): ingest and query pipelines, build_context.       *)
(*   - ZeroTrustMiddlewareService (src/security/zero_trust.rs).            *)
(*   - The API handlers and CLI commands that call the engine              *)
(*     (src/api/handlers.rs, src/cli/commands.rs).                         *)
(* The specifications share the variables:                                 *)
(*   SpecEmbed     concurrent embed calls, lock protocol step by step      *)
(*   SpecEmbedFair the same calls under weak fairness                      *)
(*   SpecChunk     chunk_text, one loop iteration per step                 *)
(*   SpecRag       concurrent ingest_document / query calls                *)
(*   SpecEngine    RagEngine::new and the chunking of its documents        *)
(*   SpecStoreNew  concurrent VectorStore::new calls                       *)
(*   SpecStore     upsert, search and delete on built stores               *)
(*   SpecDocument  Document::chunk called repeatedly                       *)
(*   SpecContext   build_context on bounded QueryResults                   *)
(*   SpecGate      requests through the zero-trust middleware              *)
(*   SpecFront     API requests and CLI commands, one engine call each     *)
(***************************************************************************)
EXTENDS Integers, Sequences, FiniteSets, TLC

\* Number of concurrent callers of one EmbeddingService (and its clones).
NTasks == 3

Tasks == 1..NTasks

\* Option::None in the model slot; a loaded model is the number of the load.
None == 0

VARIABLES
    \* ---- EmbeddingService: Arc<RwLock<Option<TextEmbedding>>> ----
    slot,          \* content of the Option: None or the id of the loaded model
    copies,        \* ptr::read duplicates of the model currently alive
    released,      \* TRUE once a duplicate was dropped: the model's resources are freed
    loadAttempts,  \* calls of TextEmbedding::try_new
    loadCount,     \* successful calls of TextEmbedding::try_new
    aborted,       \* the process was killed by undefined behaviour
    queue,         \* tokio RwLock FIFO wait queue: <<task, "w" | "r">>
    writer,        \* task holding the write guard, or None
    readers,       \* tasks holding a read guard
    pc,            \* position of each task inside embed / embed_batch
    eres,          \* result of each task's embed call
    loadRes,       \* what the task's own try_new returned: "none" | "ok" | "fail"
    stale,         \* the task's inference ran on a released model
    envFail,       \* the task's inference on a live model failed
    \* ---- chunk_text(text, chunk_size, overlap) ----
    cText,         \* chars: Vec<char> of the text
    cSize,         \* chunk_size
    cOverlap,      \* overlap
    cStart,        \* start
    cChunks,       \* chunks pushed so far
    cState,        \* "run" | "done" (returned) | "panic" (slice index out of range)
    \* ---- RagEngine calls and the Qdrant collection ----
    index,         \* points of the collection
    kind,          \* "none" | "ingest" | "query": the call each task makes
    arg,           \* the document id (ingest) or the query number (query)
    rpc,           \* position of each call in its pipeline
    rres,          \* result of each call
    chunks,        \* document.chunks after Document::chunk
    embs,          \* vectors returned by embed_batch / embed
    found,         \* Vec<SearchResult> returned by VectorStore::search
    answer,        \* QueryResult returned by query
    seen,          \* the ingests that had returned Ok(()) when the call began
    \* ---- RagEngine::new(embedding_service, vector_store, config) ----
    config,        \* the RagConfig handed to RagEngine::new
    engine,        \* "none" before the call, then what it returned: "ok" | "err"
    \* ---- VectorStore::new / ensure_collection and the store's requests ----
    collections,   \* collections of the configured name on the Qdrant server
    spc,           \* position of each VectorStore::new call
    sexists,       \* the `exists` each call read from collection_exists
    sres,          \* what each VectorStore::new call returned
    sop,           \* the last request of a store: operation, argument, what it
                   \* returned, how many points it removed, Ok or Err
    rewritten,     \* ids of points an upsert replaced by other content
    \* ---- Document (content cText, chunked with cSize and cOverlap) ----
    docChunks,     \* self.chunks
    docBefore,     \* self.chunks as the last chunk() call found it
    docCalls,      \* chunk() calls that returned
    docState,      \* "ok" | "panic" (a chunk() call unwound)
    \* ---- RagEngine::build_context(&QueryResult) ----
    qresult,       \* the QueryResult handed to build_context
    contexts,      \* the strings the build_context calls returned, in call order
    \* ---- ZeroTrustMiddlewareService { service, config } ----
    ztConfig,      \* the ZeroTrustConfig of the middleware
    gateReq,       \* the last request: what realip_remote_addr() gave for it
    gateOut,       \* how call answered it: "none" | "served" | "forbidden_ip" |
                   \* "forbidden_unknown"
    served,        \* calls made to the wrapped service
    \* ---- API handlers and CLI commands in front of the engine ----
    response,      \* what the last request or command gave back to its caller
    requests       \* requests and commands that ran

embedVars == <<slot, copies, released, loadAttempts, loadCount, aborted,
               queue, writer, readers, pc, eres, loadRes, stale, envFail>>

chunkVars == <<cText, cSize, cOverlap, cStart, cChunks, cState>>

ragVars == <<index, kind, arg, rpc, rres, chunks, embs, found, answer, seen>>

\* The lock and the per-task positions of the step-by-step embed protocol.
lockVars == <<copies, queue, writer, readers, pc, eres, loadRes, stale, envFail>>

engineVars == <<config, engine>>

storeVars == <<collections, spc, sexists, sres, sop, rewritten>>

docVars == <<docChunks, docBefore, docCalls, docState>>

contextVars == <<qresult, contexts>>

\* The components outside the RAG core.
gateVars == <<ztConfig, gateReq, gateOut, served>>

frontVars == <<response, requests>>

restVars == <<docVars, contextVars, gateVars, frontVars>>

vars == <<embedVars, chunkVars, ragVars, engineVars, storeVars, restVars>>

\* What the steps of one component leave alone.
notEmbed == <<chunkVars, ragVars, engineVars, storeVars, restVars>>
notChunk == <<embedVars, ragVars, engineVars, storeVars, restVars>>
notRag == <<chunkVars, lockVars, engineVars, storeVars, restVars>>
notEngine == <<embedVars, ragVars, storeVars, restVars>>
notStore == <<embedVars, chunkVars, engineVars, restVars,
              kind, arg, rpc, rres, chunks, embs, found, answer, seen>>
notDoc == <<embedVars, ragVars, engineVars, storeVars,
            cText, cSize, cOverlap, cStart, cChunks, cState, contextVars, gateVars, frontVars>>
notContext == <<embedVars, chunkVars, ragVars, engineVars, storeVars, docVars,
                gateVars, frontVars>>
notGate == <<embedVars, chunkVars, ragVars, engineVars, storeVars, docVars,
             contextVars, frontVars>>
notFront == <<embedVars, chunkVars, engineVars, storeVars, docVars, contextVars,
              gateVars, kind, arg, rpc, rres, chunks, embs, found, answer, seen>>

Min(a, b) == IF a <= b THEN a ELSE b
Max(a, b) == IF a >= b THEN a ELSE b

----------------------------------------------------------------------------
\* tokio::sync::RwLock: fair, FIFO, write-preferring.

Waiting(t) == \E i \in 1..Len(queue) : queue[i][1] = t

\* The request at the head of the queue is granted as soon as it is compatible
\* with the guards that are out.
CanGrant(t, mode) ==
    /\ queue # <<>>
    /\ Head(queue) = <<t, mode>>
    /\ writer = None
    /\ mode = "w" => readers = {}

----------------------------------------------------------------------------
\* EmbeddingService::embed / embed_batch, step by step.

EmbedInit ==
    /\ slot = None
    /\ copies = 0
    /\ released = FALSE
    /\ loadAttempts = 0
    /\ loadCount = 0
    /\ aborted = FALSE
    /\ queue = <<>>
    /\ writer = None
    /\ readers = {}
    /\ pc = [t \in Tasks |-> "idle"]
    /\ eres = [t \in Tasks |-> "none"]
    /\ loadRes = [t \in Tasks |-> "none"]
    /\ stale = [t \in Tasks |-> FALSE]
    /\ envFail = [t \in Tasks |-> FALSE]

\* Task t stands at position p of its embed call and the process is alive.
At(t, p) == ~aborted /\ pc[t] = p

\* embed() is called: init() asks for the write lock, whatever the slot holds.
Call(t) ==
    /\ At(t, "idle")
    /\ queue' = Append(queue, <<t, "w">>)
    /\ pc' = [pc EXCEPT ![t] = "init_wait"]
    /\ UNCHANGED <<slot, copies, released, loadAttempts, loadCount, aborted,
                   writer, readers, eres, loadRes, stale, envFail>>
    /\ UNCHANGED notEmbed

\* init(): write guard granted, slot already filled: Ok(()), guard dropped.
InitSkip(t) ==
    /\ At(t, "init_wait")
    /\ CanGrant(t, "w")
    /\ slot # None
    /\ queue' = Tail(queue)
    /\ pc' = [pc EXCEPT ![t] = "init_ok"]
    /\ UNCHANGED <<slot, copies, released, loadAttempts, loadCount, aborted,
                   writer, readers, eres, loadRes, stale, envFail>>
    /\ UNCHANGED notEmbed

\* init(): write guard granted, slot empty: try_new is spawned; the guard is
\* held across the await.
InitLoad(t) ==
    /\ At(t, "init_wait")
    /\ CanGrant(t, "w")
    /\ slot = None
    /\ queue' = Tail(queue)
    /\ writer' = t
    /\ loadAttempts' = loadAttempts + 1
    /\ pc' = [pc EXCEPT ![t] = "loading"]
    /\ UNCHANGED <<slot, copies, released, loadCount, aborted,
                   readers, eres, loadRes, stale, envFail>>
    /\ UNCHANGED notEmbed

\* try_new returned Ok(model): *model_guard = Some(model); guard dropped.
LoadOk(t) ==
    /\ At(t, "loading")
    /\ slot' = loadAttempts
    /\ loadCount' = loadCount + 1
    /\ writer' = None
    /\ loadRes' = [loadRes EXCEPT ![t] = "ok"]
    /\ pc' = [pc EXCEPT ![t] = "init_ok"]
    /\ UNCHANGED <<copies, released, loadAttempts, aborted, queue, readers,
                   eres, stale, envFail>>
    /\ UNCHANGED notEmbed

\* A load failure that leaves a half-built model in the slot.
LoadFailKeepsPartial(t) ==
    /\ At(t, "loading")
    /\ slot' = loadAttempts
    /\ writer' = None
    /\ loadRes' = [loadRes EXCEPT ![t] = "fail"]
    /\ eres' = [eres EXCEPT ![t] = "load_err"]
    /\ pc' = [pc EXCEPT ![t] = "done"]
    /\ UNCHANGED <<copies, released, loadAttempts, loadCount, aborted,
                   queue, readers, stale, envFail>>
    /\ UNCHANGED notEmbed

\* try_new returned Err: `?` leaves init and embed; the slot is not assigned.
LoadFail(t) ==
    /\ At(t, "loading")
    /\ writer' = None
    /\ loadRes' = [loadRes EXCEPT ![t] = "fail"]
    /\ eres' = [eres EXCEPT ![t] = "load_err"]
    /\ pc' = [pc EXCEPT ![t] = "done"]
    /\ UNCHANGED <<slot, copies, released, loadAttempts, loadCount, aborted,
                   queue, readers, stale, envFail>>
    /\ UNCHANGED notEmbed

\* self.model.read().await is requested.
ReadRequest(t) ==
    /\ At(t, "init_ok")
    /\ queue' = Append(queue, <<t, "r">>)
    /\ pc' = [pc EXCEPT ![t] = "read_wait"]
    /\ UNCHANGED <<slot, copies, released, loadAttempts, loadCount, aborted,
                   writer, readers, eres, loadRes, stale, envFail>>
    /\ UNCHANGED notEmbed

\* Read guard granted; as_ref().context("Model not initialized")?; then
\* ptr::read makes a bitwise duplicate that is moved into spawn_blocking.
ReadAcquire(t) ==
    /\ At(t, "read_wait")
    /\ CanGrant(t, "r")
    /\ queue' = Tail(queue)
    /\ IF slot = None
         THEN /\ eres' = [eres EXCEPT ![t] = "not_init"]
              /\ pc' = [pc EXCEPT ![t] = "done"]
              /\ UNCHANGED <<readers, copies>>
         ELSE /\ readers' = readers \cup {t}
              /\ copies' = copies + 1
              /\ pc' = [pc EXCEPT ![t] = "spawned"]
              /\ UNCHANGED eres
    /\ UNCHANGED <<slot, released, loadAttempts, loadCount, aborted,
                   writer, loadRes, stale, envFail>>
    /\ UNCHANGED notEmbed

\* The blocking closure runs model_clone.embed(..). On a live model the library
\* returns Ok or Err. On a model whose resources an earlier drop has freed the
\* behaviour is undefined: Ok, Err, or the process dies.
Infer(t) ==
    /\ At(t, "spawned")
    /\ pc' = [pc EXCEPT ![t] = "inferred"]
    /\ stale' = [stale EXCEPT ![t] = released]
    /\ \/ /\ eres' = [eres EXCEPT ![t] = "ok"]
          /\ UNCHANGED <<envFail, aborted>>
       \/ /\ eres' = [eres EXCEPT ![t] = "infer_err"]
          /\ envFail' = [envFail EXCEPT ![t] = ~released]
          /\ UNCHANGED aborted
       \/ /\ released
          /\ aborted' = TRUE
          /\ UNCHANGED <<eres, envFail>>
    /\ UNCHANGED <<slot, copies, released, loadAttempts, loadCount,
                   queue, writer, readers, loadRes>>
    /\ UNCHANGED notEmbed

\* The closure ends: model_clone is dropped, which runs TextEmbedding's
\* destructor on the resources the slot still points to. A second drop is a
\* double free: the process dies or goes on.
DropClone(t) ==
    /\ At(t, "inferred")
    /\ pc' = [pc EXCEPT ![t] = "joined"]
    /\ copies' = copies - 1
    /\ released' = TRUE
    /\ \/ UNCHANGED aborted
       \/ /\ released
          /\ aborted' = TRUE
    /\ UNCHANGED <<slot, loadAttempts, loadCount, queue, writer, readers,
                   eres, loadRes, stale, envFail>>
    /\ UNCHANGED notEmbed

\* A return that keeps the read guard.
ReturnKeepsGuard(t) ==
    /\ At(t, "joined")
    /\ pc' = [pc EXCEPT ![t] = "done"]
    /\ UNCHANGED <<slot, copies, released, loadAttempts, loadCount, aborted,
                   queue, writer, readers, eres, loadRes, stale, envFail>>
    /\ UNCHANGED notEmbed

\* The JoinHandle resolves, embed returns and the read guard is dropped.
Return(t) ==
    /\ At(t, "joined")
    /\ readers' = readers \ {t}
    /\ pc' = [pc EXCEPT ![t] = "done"]
    /\ UNCHANGED <<slot, copies, released, loadAttempts, loadCount, aborted,
                   queue, writer, eres, loadRes, stale, envFail>>
    /\ UNCHANGED notEmbed

EmbedStep(t) ==
        \/ Call(t)
        \/ InitSkip(t)
        \/ InitLoad(t)
        \/ LoadOk(t)
        \/ LoadFail(t)
        \/ ReadRequest(t)
        \/ ReadAcquire(t)
        \/ Infer(t)
        \/ DropClone(t)
        \/ Return(t)

----------------------------------------------------------------------------
\* chunk_text (src/core/document.rs).
\* A char is "a" (a one-byte letter), "E" (a two-byte letter such as U+00E9)
\* or one of the sentence terminators, which are one byte each.

\* Longest text of the chunking specification, in codepoints.
MaxLen == 4
\* Largest chunk_size and overlap of the chunking specification.
MaxChunkSize == 3
MaxOverlap == 3

Alphabet == {"a", "E", ".", "!"}

IsTerminator(c) == c \in {".", "!", "?"}

\* char::len_utf8
Utf8Len(c) == IF c = "E" THEN 2 ELSE 1

RECURSIVE ByteLen(_)
ByteLen(str) == IF str = <<>> THEN 0 ELSE Utf8Len(Head(str)) + ByteLen(Tail(str))

TextsUpTo(n) == UNION {[1..k -> Alphabet] : k \in 0..n}

\* chars[from..to] with Rust's 0-based half-open bounds.
Slice(chars, from, to) == SubSeq(chars, from + 1, to)

\* str::rfind(|c| c == '.' || c == '!' || c == '?'): the BYTE index of the
\* last matching char of the String, or -1 for Option::None.
RFindTerminator(str) ==
    LET hits == {i \in 1..Len(str) : IsTerminator(str[i])}
    IN  IF hits = {} THEN -1
        ELSE LET last == CHOOSE i \in hits : \A j \in hits : j <= i
             IN  ByteLen(SubSeq(str, 1, last - 1))

\* step = chunk_size.saturating_sub(overlap).max(1)
StepOf(size, overlap) == Max(IF size >= overlap THEN size - overlap ELSE 0, 1)

\* One pass of the while loop at `start`: the tuple pushed, or a panic when
\* chars[start..adjusted_end] runs past the end of the slice.
ChunkAt(chars, size, start) ==
    LET total == Len(chars)
        end == Min(start + size, total)
        chunk == Slice(chars, start, end)
        pos == RFindTerminator(chunk)
        adjusted_end == start + pos + 1
        shrink == end < total /\ pos >= 0 /\ adjusted_end > start
        adjusted_chunk == IF shrink THEN Slice(chars, start, adjusted_end) ELSE chunk
    IN  IF shrink /\ adjusted_end > total
          THEN [panic |-> TRUE, content |-> <<>>, start |-> start, end |-> start]
          ELSE [panic |-> FALSE, content |-> adjusted_chunk, start |-> start,
                end |-> start + Len(adjusted_chunk)]

\* The whole function: [panic, chunks].
RECURSIVE ChunkFrom(_, _, _, _, _)
ChunkFrom(chars, size, step, start, acc) ==
    IF start >= Len(chars) THEN [panic |-> FALSE, chunks |-> acc]
    ELSE LET c == ChunkAt(chars, size, start)
         IN  IF c.panic THEN [panic |-> TRUE, chunks |-> acc]
             ELSE ChunkFrom(chars, size, step, start + step, Append(acc, c))

ChunkText(chars, size, overlap) ==
    ChunkFrom(chars, size, StepOf(size, overlap), 0, <<>>)

ChunkInit ==
    /\ cText \in TextsUpTo(MaxLen)
    /\ cSize \in 0..MaxChunkSize
    /\ cOverlap \in 0..MaxOverlap
    /\ cStart = 0
    /\ cChunks = <<>>
    /\ cState = "run"

\* Variables of chunk_text while another specification runs.
ChunkIdle ==
    /\ cText = <<>>
    /\ cSize = 0
    /\ cOverlap = 0
    /\ cStart = 0
    /\ cChunks = <<>>
    /\ cState = "done"

\* One iteration that pushes a chunk and advances start by step.
ChunkLoop ==
    /\ cState = "run"
    /\ cStart < Len(cText)
    /\ ~ChunkAt(cText, cSize, cStart).panic
    /\ cChunks' = Append(cChunks, ChunkAt(cText, cSize, cStart))
    /\ cStart' = cStart + StepOf(cSize, cOverlap)
    /\ UNCHANGED <<cText, cSize, cOverlap, cState>>
    /\ UNCHANGED notChunk

\* One iteration whose slice chars[start..adjusted_end] is out of range.
ChunkPanic ==
    /\ cState = "run"
    /\ cStart < Len(cText)
    /\ ChunkAt(cText, cSize, cStart).panic
    /\ cState' = "panic"
    /\ UNCHANGED <<cText, cSize, cOverlap, cStart, cChunks>>
    /\ UNCHANGED notChunk

\* total == 0 or start >= total: the function returns chunks.
ChunkReturn ==
    /\ cState = "run"
    /\ cStart >= Len(cText)
    /\ cState' = "done"
    /\ UNCHANGED <<cText, cSize, cOverlap, cStart, cChunks>>
    /\ UNCHANGED notChunk

ChunkNext ==
    \/ ChunkLoop
    \/ ChunkPanic
    \/ ChunkReturn

----------------------------------------------------------------------------
\* RagEngine (src/core/rag.rs) over VectorStore (src/core/vector_store.rs).
\* Calls interleave at their await points. The embed call of a pipeline is
\* taken in two steps, init() and the inference: init() runs under the write
\* lock, and the inference holds no more than a read guard.

\* Concurrent ingest_document / query calls.
NRagTasks == 2
RTasks == 1..NRagTasks

\* RagConfig of the engine, scaled to the texts of the model.
RagChunkSize == 3
RagChunkOverlap == 1
SearchLimit == 2
\* RagConfig::default().similarity_threshold, in hundredths.
SimilarityThreshold == 70

\* Documents handed to ingest_document: an empty one, one of three chunks, and
\* one with two-byte characters before a sentence terminator.
DocContent ==
    << <<>>,
       <<"a", ".", "a", "a", "a">>,
       <<"E", "E", ".", "a">> >>
DocIds == 1..Len(DocContent)

QueryTexts == << <<"a">>, <<"a", "a", "a", "a", "a">> >>
QueryIds == 1..Len(QueryTexts)

\* The embedding model, a deterministic function of the text.
EmbedVec(text) == Len(text)

\* Cosine-style similarity of two vectors, in hundredths: 100 for equal ones.
Score(q, v) == Max(0, 100 - 15 * (IF q >= v THEN q - v ELSE v - q))

\* Vectors that an inference on freed model memory can come back with: one
\* near the vectors of short texts, one far from every vector of the model.
JunkVectors == {0, 9}

\* Points an earlier run left in the collection (document 0), and a point of
\* another writer whose id is no UUID.
PriorPoint(i) ==
    [id |-> <<0, i>>, uuid |-> TRUE, vector |-> i, document_id |-> 0,
     chunk_index |-> i - 1, content |-> [k \in 1..i |-> "a"]]
PriorPoints == {PriorPoint(i) : i \in 1..3}
ForeignPoint ==
    [id |-> <<0, 0>>, uuid |-> FALSE, vector |-> 5, document_id |-> 0,
     chunk_index |-> 0, content |-> <<>>]

\* A chunk id derived from the document and the chunk's position.
ChunkIdOfDocument(t, d, i) == <<0 - d, i>>

\* Uuid::now_v7() of the i-th chunk made by call t for document d.
ChunkId(t, d, i) == <<t, i>>

\* Document::chunk: self.chunks = chunk_text(..).enumerate().map(..).
DocumentChunks(t, d) ==
    LET r == ChunkText(DocContent[d], RagChunkSize, RagChunkOverlap).chunks
    IN  [i \in 1..Len(r) |->
            [id |-> ChunkId(t, d, i), document_id |-> d, content |-> r[i].content,
             chunk_index |-> i - 1, start_char |-> r[i].start,
             end_char |-> r[i].end]]

\* The texts a call passes to embed_batch (ingest) or embed (query).
EmbedTexts(t) ==
    IF kind[t] = "ingest"
      THEN [i \in 1..Len(chunks[t]) |-> chunks[t][i].content]
      ELSE <<QueryTexts[arg[t]]>>

\* model.embed(texts): one vector per text, in order.
EmbedBatch(texts) == [i \in 1..Len(texts) |-> EmbedVec(texts[i])]

\* A batch whose payload counts chunks from one.
IngestPointsOneBased(cs, es) ==
    {[id |-> cs[i].id, uuid |-> TRUE, vector |-> es[i],
      document_id |-> cs[i].document_id, chunk_index |-> cs[i].chunk_index + 1,
      content |-> cs[i].content] : i \in 1..Min(Len(cs), Len(es))}

\* document.chunks.iter().zip(embeddings).map(..): the batch of ingest_document
\* as upsert_batch turns it into PointStructs.
IngestPoints(cs, es) ==
    {[id |-> cs[i].id, uuid |-> TRUE, vector |-> es[i],
      document_id |-> cs[i].document_id, chunk_index |-> cs[i].chunk_index,
      content |-> cs[i].content] : i \in 1..Min(Len(cs), Len(es))}

\* An upsert that adds the points and keeps what the collection held.
UpsertPointsKeepsOld(idx, pts) == idx \cup pts

\* A delete that empties the collection.
DeletePointsAll(idx, d) == {}

\* Qdrant delete_points with Filter::must([document_id matches d]): the points
\* whose payload document_id is d.to_string() go, the others stay.
DeletePoints(idx, d) == {p \in idx : p.document_id # d}

\* Qdrant upsert_points: insert or replace by point id.
UpsertPoints(idx, pts) ==
    {p \in idx : \A n \in pts : n.id # p.id} \cup pts

\* Qdrant search_points: the `limit` best points by score, best first; the
\* order among equal scores is the server's.
ScoredPoint(p, q) ==
    [id |-> p.id, uuid |-> p.uuid, score |-> Score(q, p.vector),
     document_id |-> p.document_id, chunk_index |-> p.chunk_index,
     content |-> p.content]

RECURSIVE TopK(_, _, _)
TopK(idx, q, k) ==
    IF k = 0 \/ idx = {} THEN {<<>>}
    ELSE LET best == {p \in idx :
                        \A o \in idx : Score(q, o.vector) <= Score(q, p.vector)}
         IN  UNION {{<<ScoredPoint(p, q)>> \o rest :
                        rest \in TopK(idx \ {p}, q, k - 1)} : p \in best}

\* VectorStore::search: filter_map drops a point whose id is no UUID.
SearchResults(raw) ==
    LET hits == SelectSeq(raw, LAMBDA r : r.uuid)
    IN  [i \in 1..Len(hits) |->
            [id |-> hits[i].id, score |-> hits[i].score,
             document_id |-> hits[i].document_id,
             chunk_index |-> hits[i].chunk_index, content |-> hits[i].content]]

\* A filter with an exclusive bound.
FilteredStrict(results) ==
    SelectSeq(results, LAMBDA r : r.score > SimilarityThreshold)

\* query: .filter(|r| r.score >= self.config.similarity_threshold)
Filtered(results) ==
    SelectSeq(results, LAMBDA r : r.score >= SimilarityThreshold)

\* format!("Document {}", r.document_id)
DocumentTitle(id) == <<"Document", id>>

\* A mapping that labels each result by its chunk index instead of its
\* document.
BuildQueryResultTitledByChunk(filtered) ==
    [context_chunks |->
        [i \in 1..Len(filtered) |->
            [content |-> filtered[i].content, score |-> filtered[i].score,
             source_type |-> "Manual",
             source_title |-> DocumentTitle(filtered[i].chunk_index)]],
     sources |->
        [i \in 1..Len(filtered) |->
            [title |-> DocumentTitle(filtered[i].chunk_index), url |-> "None",
             source_type |-> "Manual"]]]

\* query: context_chunks and sources built from the filtered results.
BuildQueryResult(filtered) ==
    [context_chunks |->
        [i \in 1..Len(filtered) |->
            [content |-> filtered[i].content, score |-> filtered[i].score,
             source_type |-> "Manual",
             source_title |-> DocumentTitle(filtered[i].document_id)]],
     sources |->
        [i \in 1..Len(filtered) |->
            [title |-> DocumentTitle(filtered[i].document_id), url |-> "None",
             source_type |-> "Manual"]]]

EmptyResult == [context_chunks |-> <<>>, sources |-> <<>>]

RagInit ==
    /\ index \in {{}, PriorPoints, PriorPoints \cup {ForeignPoint}}
    /\ kind = [t \in RTasks |-> "none"]
    /\ arg = [t \in RTasks |-> 0]
    /\ rpc = [t \in RTasks |-> "idle"]
    /\ rres = [t \in RTasks |-> "none"]
    /\ chunks = [t \in RTasks |-> <<>>]
    /\ embs = [t \in RTasks |-> <<>>]
    /\ found = [t \in RTasks |-> <<>>]
    /\ answer = [t \in RTasks |-> EmptyResult]
    /\ seen = [t \in RTasks |-> {}]

\* Variables of the engine while another specification runs.
RagIdle ==
    /\ index = {}
    /\ kind = [t \in RTasks |-> "none"]
    /\ arg = [t \in RTasks |-> 0]
    /\ rpc = [t \in RTasks |-> "idle"]
    /\ rres = [t \in RTasks |-> "none"]
    /\ chunks = [t \in RTasks |-> <<>>]
    /\ embs = [t \in RTasks |-> <<>>]
    /\ found = [t \in RTasks |-> <<>>]
    /\ answer = [t \in RTasks |-> EmptyResult]
    /\ seen = [t \in RTasks |-> {}]

\* Call t stands at position p of its pipeline and the process is alive.
RagAt(t, p) == ~aborted /\ rpc[t] = p

\* Call t ends with result r.
RagEnd(t, r) ==
    /\ rres' = [rres EXCEPT ![t] = r]
    /\ rpc' = [rpc EXCEPT ![t] = "done"]

\* ingest_document(document): document.chunk(..) returns, the texts are
\* collected and embed_batch is called.
IngestStart(t, d) ==
    /\ RagAt(t, "idle")
    /\ ~ChunkText(DocContent[d], RagChunkSize, RagChunkOverlap).panic
    /\ kind' = [kind EXCEPT ![t] = "ingest"]
    /\ arg' = [arg EXCEPT ![t] = d]
    /\ chunks' = [chunks EXCEPT ![t] = DocumentChunks(t, d)]
    /\ rpc' = [rpc EXCEPT ![t] = "embed_init"]
    /\ UNCHANGED <<index, rres, embs, found, answer>>
    /\ UNCHANGED <<slot, released, loadAttempts, loadCount, aborted>>
    /\ UNCHANGED seen
    /\ UNCHANGED notRag

\* ingest_document(document): chunk_text panics, the call unwinds.
IngestPanic(t, d) ==
    /\ RagAt(t, "idle")
    /\ ChunkText(DocContent[d], RagChunkSize, RagChunkOverlap).panic
    /\ kind' = [kind EXCEPT ![t] = "ingest"]
    /\ arg' = [arg EXCEPT ![t] = d]
    /\ RagEnd(t, "panic")
    /\ UNCHANGED <<index, chunks, embs, found, answer>>
    /\ UNCHANGED <<slot, released, loadAttempts, loadCount, aborted>>
    /\ UNCHANGED seen
    /\ UNCHANGED notRag

\* query(text): embed(query) is called.
QueryStart(t, q) ==
    /\ RagAt(t, "idle")
    /\ kind' = [kind EXCEPT ![t] = "query"]
    /\ arg' = [arg EXCEPT ![t] = q]
    /\ rpc' = [rpc EXCEPT ![t] = "embed_init"]
    /\ seen' = [seen EXCEPT ![t] = {u \in RTasks : kind[u] = "ingest" /\ rres[u] = "ok"}]
    /\ UNCHANGED <<index, rres, chunks, embs, found, answer>>
    /\ UNCHANGED <<slot, released, loadAttempts, loadCount, aborted>>
    /\ UNCHANGED notRag

\* init() with the slot filled.
RagInitSkip(t) ==
    /\ RagAt(t, "embed_init")
    /\ slot # None
    /\ rpc' = [rpc EXCEPT ![t] = "embed_run"]
    /\ UNCHANGED <<index, kind, arg, rres, chunks, embs, found, answer>>
    /\ UNCHANGED <<slot, released, loadAttempts, loadCount, aborted>>
    /\ UNCHANGED seen
    /\ UNCHANGED notRag

\* init() with the slot empty, try_new returns Ok.
RagLoadOk(t) ==
    /\ RagAt(t, "embed_init")
    /\ slot = None
    /\ loadAttempts' = loadAttempts + 1
    /\ loadCount' = loadCount + 1
    /\ slot' = loadAttempts + 1
    /\ rpc' = [rpc EXCEPT ![t] = "embed_run"]
    /\ UNCHANGED <<index, kind, arg, rres, chunks, embs, found, answer>>
    /\ UNCHANGED <<released, aborted>>
    /\ UNCHANGED seen
    /\ UNCHANGED notRag

\* A failed load after which the chunks are indexed without vectors.
RagLoadFailIndexesChunks(t) ==
    /\ RagAt(t, "embed_init")
    /\ slot = None
    /\ loadAttempts' = loadAttempts + 1
    /\ RagEnd(t, "embed_err")
    /\ index' = UpsertPoints(index,
                    IngestPoints(chunks[t], [i \in 1..Len(chunks[t]) |-> 0]))
    /\ UNCHANGED <<kind, arg, chunks, embs, found, answer>>
    /\ UNCHANGED <<slot, released, loadCount, aborted>>
    /\ UNCHANGED seen
    /\ UNCHANGED notRag

\* A failed load that embed answers with another try_new inside the same call.
RagLoadFailRetries(t) ==
    /\ RagAt(t, "embed_init")
    /\ slot = None
    /\ loadAttempts' = loadAttempts + 1
    /\ loadAttempts < NRagTasks
    /\ UNCHANGED <<index, kind, arg, rpc, rres, chunks, embs, found, answer>>
    /\ UNCHANGED <<slot, released, loadCount, aborted>>
    /\ UNCHANGED seen
    /\ UNCHANGED notRag

\* init() with the slot empty, try_new returns Err: `?` ends the call.
RagLoadFail(t) ==
    /\ RagAt(t, "embed_init")
    /\ slot = None
    /\ loadAttempts' = loadAttempts + 1
    /\ RagEnd(t, "embed_err")
    /\ UNCHANGED <<index, kind, arg, chunks, embs, found, answer>>
    /\ UNCHANGED <<slot, released, loadCount, aborted>>
    /\ UNCHANGED seen
    /\ UNCHANGED notRag

\* The inference of embed / embed_batch on the ptr::read duplicate, which is
\* dropped when the closure ends. On a released model the behaviour is
\* undefined: the right vectors, other vectors, an error, or the process dies.
RagInfer(t) ==
    /\ RagAt(t, "embed_run")
    /\ released' = TRUE
    /\ \/ /\ embs' = [embs EXCEPT ![t] = EmbedBatch(EmbedTexts(t))]
          /\ rpc' = [rpc EXCEPT ![t] = "embedded"]
          /\ UNCHANGED <<rres, aborted>>
       \/ /\ RagEnd(t, "embed_err")
          /\ UNCHANGED <<embs, aborted>>
       \/ /\ released
          /\ \E junk \in JunkVectors :
                embs' = [embs EXCEPT ![t] = [i \in 1..Len(EmbedTexts(t)) |-> junk]]
          /\ rpc' = [rpc EXCEPT ![t] = "embedded"]
          /\ UNCHANGED <<rres, aborted>>
       \/ /\ released
          /\ aborted' = TRUE
          /\ UNCHANGED <<rpc, rres, embs>>
    /\ UNCHANGED <<index, kind, arg, chunks, found, answer>>
    /\ UNCHANGED <<slot, loadAttempts, loadCount>>
    /\ UNCHANGED seen
    /\ UNCHANGED notRag

\* The caller drops the future of a call that is suspended in embed /
\* embed_batch. A closure already handed to spawn_blocking still runs to its
\* end and drops its duplicate of the model.
Abandon(t) ==
    /\ ~aborted
    /\ rpc[t] \in {"embed_init", "embed_run"}
    /\ RagEnd(t, "abandoned")
    /\ \E spawned \in BOOLEAN :
         released' = (released \/ (spawned /\ rpc[t] = "embed_run"))
    /\ UNCHANGED <<index, kind, arg, chunks, embs, found, answer>>
    /\ UNCHANGED <<slot, loadAttempts, loadCount, aborted>>
    /\ UNCHANGED seen
    /\ UNCHANGED notRag

\* ingest_document: the points are zipped and upsert_batch returns Ok.
IngestUpsertOk(t) ==
    /\ RagAt(t, "embedded")
    /\ kind[t] = "ingest"
    /\ index' = UpsertPoints(index, IngestPoints(chunks[t], embs[t]))
    /\ RagEnd(t, "ok")
    /\ UNCHANGED <<kind, arg, chunks, embs, found, answer>>
    /\ UNCHANGED <<slot, released, loadAttempts, loadCount, aborted>>
    /\ UNCHANGED seen
    /\ UNCHANGED notRag

\* ingest_document: upsert_points fails, `?` ends the call.
IngestUpsertFail(t) ==
    /\ RagAt(t, "embedded")
    /\ kind[t] = "ingest"
    /\ RagEnd(t, "index_err")
    /\ UNCHANGED <<index, kind, arg, chunks, embs, found, answer>>
    /\ UNCHANGED <<slot, released, loadAttempts, loadCount, aborted>>
    /\ UNCHANGED seen
    /\ UNCHANGED notRag

\* query: search returns Ok, the results are filtered and mapped.
QuerySearchOk(t) ==
    /\ RagAt(t, "embedded")
    /\ kind[t] = "query"
    /\ \E raw \in TopK(index, embs[t][1], SearchLimit) :
         /\ found' = [found EXCEPT ![t] = SearchResults(raw)]
         /\ answer' = [answer EXCEPT ![t] =
                          BuildQueryResult(Filtered(SearchResults(raw)))]
    /\ RagEnd(t, "ok")
    /\ UNCHANGED <<index, kind, arg, chunks, embs>>
    /\ UNCHANGED <<slot, released, loadAttempts, loadCount, aborted>>
    /\ UNCHANGED seen
    /\ UNCHANGED notRag

\* query: search_points fails, `?` ends the call.
QuerySearchFail(t) ==
    /\ RagAt(t, "embedded")
    /\ kind[t] = "query"
    /\ RagEnd(t, "index_err")
    /\ UNCHANGED <<index, kind, arg, chunks, embs, found, answer>>
    /\ UNCHANGED <<slot, released, loadAttempts, loadCount, aborted>>
    /\ UNCHANGED seen
    /\ UNCHANGED notRag

----------------------------------------------------------------------------
\* RagEngine::new and the first statement of ingest_document: the engine keeps
\* the RagConfig it is given and chunks every document with its chunk_size
\* and chunk_overlap.

\* The RagConfig values a caller can build: the fields are public usize.
Configs == [chunk_size : 0..MaxChunkSize, chunk_overlap : 0..MaxOverlap]

EngineInit ==
    /\ config \in Configs
    /\ engine = "none"

\* The engine the other specifications run with.
EngineIdle ==
    /\ config = [chunk_size |-> RagChunkSize, chunk_overlap |-> RagChunkOverlap]
    /\ engine = "ok"

\* RagEngine::new: Ok(Self { .., config, .. }) for every config.
EngineNew ==
    /\ engine = "none"
    /\ engine' = "ok"
    /\ UNCHANGED config
    /\ UNCHANGED chunkVars
    /\ UNCHANGED notEngine

\* ingest_document: document.chunk(self.config.chunk_size,
\* self.config.chunk_overlap) enters chunk_text with the document's content.
EngineDocumentChunk(text) ==
    /\ engine = "ok"
    /\ ChunkIdle
    /\ cText' = text
    /\ cSize' = config.chunk_size
    /\ cOverlap' = config.chunk_overlap
    /\ cStart' = 0
    /\ cChunks' = <<>>
    /\ cState' = "run"
    /\ UNCHANGED engineVars
    /\ UNCHANGED notEngine

EngineNext ==
    \/ EngineNew
    \/ \E text \in TextsUpTo(MaxLen) : EngineDocumentChunk(text)
    \/ ChunkLoop
    \/ ChunkPanic
    \/ ChunkReturn

RagNext ==
    \E t \in RTasks :
        \/ \E d \in DocIds : IngestStart(t, d)
        \/ \E d \in DocIds : IngestPanic(t, d)
        \/ \E q \in QueryIds : QueryStart(t, q)
        \/ RagInitSkip(t)
        \/ RagLoadOk(t)
        \/ RagLoadFail(t)
        \/ RagInfer(t)
        \/ Abandon(t)
        \/ IngestUpsertOk(t)
        \/ IngestUpsertFail(t)
        \/ QuerySearchOk(t)
        \/ QuerySearchFail(t)

----------------------------------------------------------------------------
\* VectorStore (src/core/vector_store.rs) against one Qdrant server, in two
\* specifications: the constructions VectorStore::new -> ensure_collection,
\* which may run concurrently (the api and the cli binaries each build a
\* store), and the requests of constructed stores, one server request each.

\* Concurrent VectorStore::new calls for the same collection name.
NStores == 3
STasks == 1..NStores

\* Point ids, document ids, contents and query vectors of the requests.
StoreIds == {1, 2}
StoreDocs == {1, 2}
StoreContents == {<<"a">>, <<"a", "a">>}
StoreQueries == {1, 2}

\* PointStruct::new(PointId::from(id.to_string()), embedding, payload) of
\* upsert / upsert_batch.
StorePoint(id, d, content) ==
    [id |-> id, uuid |-> TRUE, vector |-> EmbedVec(content), document_id |-> d,
     chunk_index |-> 0, content |-> content]

StorePoints == {StorePoint(id, d, c) : id \in StoreIds, d \in StoreDocs, c \in StoreContents}

\* The Vec of points of one upsert_points request: upsert sends one point,
\* upsert_batch any number of them.
Batches == UNION {[1..n -> StorePoints] : n \in 0..2}

\* The server applies the points of one request in order: for an id that
\* occurs twice the later point stays.
RECURSIVE UpsertBatch(_, _)
UpsertBatch(idx, batch) ==
    IF batch = <<>> THEN idx
    ELSE UpsertBatch(UpsertPoints(idx, {Head(batch)}), Tail(batch))

NoRequest == [op |-> "none", arg |-> <<>>, out |-> <<>>, gone |-> 0, res |-> "none"]

StoreInit ==
    /\ collections \in {0, 1}
    /\ index = {}
    /\ spc = [t \in STasks |-> "idle"]
    /\ sexists = [t \in STasks |-> FALSE]
    /\ sres = [t \in STasks |-> "none"]
    /\ sop = NoRequest
    /\ rewritten = {}

\* Every VectorStore::new has returned a store of the collection, which
\* holds no point yet.
StoreBuilt ==
    /\ collections = 1
    /\ index = {}
    /\ spc = [t \in STasks |-> "done"]
    /\ sexists = [t \in STasks |-> TRUE]
    /\ sres = [t \in STasks |-> "ok"]
    /\ sop = NoRequest
    /\ rewritten = {}

\* Variables of the store while another specification runs.
StoreIdle ==
    /\ collections = 1
    /\ spc = [t \in STasks |-> "idle"]
    /\ sexists = [t \in STasks |-> FALSE]
    /\ sres = [t \in STasks |-> "none"]
    /\ sop = NoRequest
    /\ rewritten = {}

\* VectorStore::new call t ends with result r.
StoreEnd(t, r) ==
    /\ sres' = [sres EXCEPT ![t] = r]
    /\ spc' = [spc EXCEPT ![t] = "done"]

\* ensure_collection: collection_exists returns Ok(exists).
CollectionExistsOk(t) ==
    /\ spc[t] = "idle"
    /\ sexists' = [sexists EXCEPT ![t] = (collections > 0)]
    /\ spc' = [spc EXCEPT ![t] = "checked"]
    /\ UNCHANGED <<collections, sres, sop, rewritten, index>>
    /\ UNCHANGED notStore

\* Qdrant::from_url(..).build() or collection_exists fails: `?` ends new.
CollectionExistsFail(t) ==
    /\ spc[t] = "idle"
    /\ StoreEnd(t, "check_err")
    /\ UNCHANGED <<collections, sexists, sop, rewritten, index>>
    /\ UNCHANGED notStore

\* ensure_collection: exists is true, nothing is created, Ok(()).
EnsureSkip(t) ==
    /\ spc[t] = "checked"
    /\ sexists[t]
    /\ StoreEnd(t, "ok")
    /\ UNCHANGED <<collections, sexists, sop, rewritten, index>>
    /\ UNCHANGED notStore

\* ensure_collection: exists is false, create_collection returns Ok.
CreateCollectionOk(t) ==
    /\ spc[t] = "checked"
    /\ ~sexists[t]
    /\ collections = 0
    /\ collections' = 1
    /\ StoreEnd(t, "ok")
    /\ UNCHANGED <<sexists, sop, rewritten, index>>
    /\ UNCHANGED notStore

\* ensure_collection: exists is false, but the collection has been created
\* since: the server rejects create_collection for a name that exists, and
\* `?` makes new return "Failed to create collection".
CreateCollectionExists(t) ==
    /\ spc[t] = "checked"
    /\ ~sexists[t]
    /\ collections > 0
    /\ StoreEnd(t, "exists_err")
    /\ UNCHANGED <<collections, sexists, sop, rewritten, index>>
    /\ UNCHANGED notStore

\* ensure_collection: create_collection fails for a reason of the server or
\* the network.
CreateCollectionFail(t) ==
    /\ spc[t] = "checked"
    /\ ~sexists[t]
    /\ StoreEnd(t, "create_err")
    /\ UNCHANGED <<collections, sexists, sop, rewritten, index>>
    /\ UNCHANGED notStore

\* Every construction has returned and one of them returned a store.
StoreReady ==
    /\ \A t \in STasks : spc[t] = "done"
    /\ {t \in STasks : sres[t] = "ok"} # {}

\* Ids whose point the batch replaces by a point of other content.
Rewrites(idx, batch) ==
    {p.id : p \in {q \in idx : \E i \in 1..Len(batch) :
                      batch[i].id = q.id /\ batch[i].content # q.content}}

\* upsert (a batch of one) / upsert_batch: upsert_points returns Ok.
StoreUpsertOk(batch) ==
    /\ StoreReady
    /\ index' = UpsertBatch(index, batch)
    /\ rewritten' = rewritten \cup Rewrites(index, batch)
    /\ sop' = [op |-> "upsert", arg |-> batch, out |-> <<>>, gone |-> 0, res |-> "ok"]
    /\ UNCHANGED <<collections, spc, sexists, sres>>
    /\ UNCHANGED notStore

\* upsert / upsert_batch: upsert_points fails, `?` returns the error.
StoreUpsertFail(batch) ==
    /\ StoreReady
    /\ sop' = [op |-> "upsert", arg |-> batch, out |-> <<>>, gone |-> 0, res |-> "err"]
    /\ UNCHANGED <<collections, spc, sexists, sres, rewritten, index>>
    /\ UNCHANGED notStore

\* search(query_embedding, limit): search_points returns Ok.
StoreSearchOk(q) ==
    /\ StoreReady
    /\ \E raw \in TopK(index, q, SearchLimit) :
         sop' = [op |-> "search", arg |-> q, out |-> SearchResults(raw),
                 gone |-> 0, res |-> "ok"]
    /\ UNCHANGED <<collections, spc, sexists, sres, rewritten, index>>
    /\ UNCHANGED notStore

\* search: search_points fails.
StoreSearchFail(q) ==
    /\ StoreReady
    /\ sop' = [op |-> "search", arg |-> q, out |-> <<>>, gone |-> 0,
               res |-> "err"]
    /\ UNCHANGED <<collections, spc, sexists, sres, rewritten, index>>
    /\ UNCHANGED notStore

\* delete_by_document(document_id): delete_points returns Ok.
StoreDeleteOk(d) ==
    /\ StoreReady
    /\ index' = DeletePoints(index, d)
    /\ sop' = [op |-> "delete", arg |-> d, out |-> <<>>,
               gone |-> Cardinality(index \ DeletePoints(index, d)), res |-> "ok"]
    /\ UNCHANGED <<collections, spc, sexists, sres, rewritten>>
    /\ UNCHANGED notStore

\* delete_by_document: delete_points fails.
StoreDeleteFail(d) ==
    /\ StoreReady
    /\ sop' = [op |-> "delete", arg |-> d, out |-> <<>>, gone |-> 0,
               res |-> "err"]
    /\ UNCHANGED <<collections, spc, sexists, sres, rewritten, index>>
    /\ UNCHANGED notStore

StoreNewNext ==
    \E t \in STasks :
        \/ CollectionExistsOk(t)
        \/ CollectionExistsFail(t)
        \/ EnsureSkip(t)
        \/ CreateCollectionOk(t)
        \/ CreateCollectionExists(t)
        \/ CreateCollectionFail(t)

StoreNext ==
    \/ \E batch \in Batches : StoreUpsertOk(batch)
    \/ \E batch \in Batches : StoreUpsertFail(batch)
    \/ \E q \in StoreQueries : StoreSearchOk(q)
    \/ \E q \in StoreQueries : StoreSearchFail(q)
    \/ \E d \in StoreDocs : StoreDeleteOk(d)
    \/ \E d \in StoreDocs : StoreDeleteFail(d)

----------------------------------------------------------------------------
\* Document::new and Document::chunk (src/core/document.rs). The document's
\* content is cText; chunk() is called with cSize and cOverlap each time.

\* chunk() calls made on one document.
MaxChunkCalls == 2

\* Document::id of the document.
DocSelf == "self"

\* The value chunk() leaves in self.chunks when it appends to the list.
AppendChunks(old, new) == old \o new

\* self.chunks = chunk_text(..)..collect(): the new list takes the place of
\* the old one.
ReplaceChunks(old, new) == new

\* chunk_text(..).into_iter().enumerate().map(..).collect() of the n-th call:
\* a fresh Uuid::now_v7() per chunk, the document's id, no embedding.
DocChunkList(n, text, size, overlap) ==
    LET r == ChunkText(text, size, overlap).chunks
    IN  [i \in 1..Len(r) |->
            [id |-> <<n, i>>, document_id |-> DocSelf, content |-> r[i].content,
             chunk_index |-> i - 1, start_char |-> r[i].start,
             end_char |-> r[i].end, embedding |-> None]]

\* Document::new(title, content, source_type): chunks: Vec::new().
DocNew ==
    /\ docChunks = <<>>
    /\ docBefore = <<>>
    /\ docCalls = 0
    /\ docState = "ok"

DocInit ==
    /\ cText \in TextsUpTo(MaxLen)
    /\ cSize \in 0..MaxChunkSize
    /\ cOverlap \in 0..MaxOverlap
    /\ cStart = 0
    /\ cChunks = <<>>
    /\ cState = "done"
    /\ DocNew

\* Document::chunk(chunk_size, overlap) returns.
DocumentChunk ==
    /\ docState = "ok"
    /\ docCalls < MaxChunkCalls
    /\ ~ChunkText(cText, cSize, cOverlap).panic
    /\ docChunks' = ReplaceChunks(docChunks,
                        DocChunkList(docCalls + 1, cText, cSize, cOverlap))
    /\ docBefore' = docChunks
    /\ docCalls' = docCalls + 1
    /\ UNCHANGED docState
    /\ UNCHANGED notDoc

\* Document::chunk: chunk_text panics before self.chunks is assigned.
DocumentChunkPanic ==
    /\ docState = "ok"
    /\ docCalls < MaxChunkCalls
    /\ ChunkText(cText, cSize, cOverlap).panic
    /\ docState' = "panic"
    /\ UNCHANGED <<docChunks, docBefore, docCalls>>
    /\ UNCHANGED notDoc

DocNext ==
    \/ DocumentChunk
    \/ DocumentChunkPanic

----------------------------------------------------------------------------
\* RagEngine::build_context (src/core/rag.rs). A string is the sequence of
\* its pieces: the literal parts of the format string, decimal digits and
\* the characters of the chunk contents.

\* Context chunks of a QueryResult, and build_context calls on one result.
MaxContextChunks == 2
MaxContextCalls == 2

\* Chunk contents: empty, plain, and one that itself looks like a header.
ContextContents == {<<>>, <<"a", "\n">>, <<"[Source ", "1", "]">>}

\* Scores in hundredths, as everywhere in this model.
ContextScores == {0, 7, 70, 100}

Digit(n) == <<"0", "1", "2", "3", "4", "5", "6", "7", "8", "9">>[n + 1]

\* Display of a usize.
RECURSIVE Decimal(_)
Decimal(n) ==
    IF n < 10 THEN <<Digit(n)>> ELSE Decimal(n \div 10) \o <<Digit(n % 10)>>

\* format!("{:.2}", score): the integer part, a point and two digits.
FormatScore(score) ==
    Decimal(score \div 100) \o <<".", Digit((score % 100) \div 10), Digit(score % 10)>>

\* format!("[Source {}] (score: {:.2})\n{}\n\n", n, chunk.score, chunk.content)
Block(n, chunk) ==
    <<"[Source ">> \o Decimal(n) \o <<"] (score: ">> \o FormatScore(chunk.score)
        \o <<")\n">> \o chunk.content \o <<"\n\n">>

\* A loop that numbers the sources from zero.
RECURSIVE BuildContextFromZero(_, _, _)
BuildContextFromZero(cc, i, context) ==
    IF i >= Len(cc) THEN context
    ELSE BuildContextFromZero(cc, i + 1, context \o Block(i, cc[i + 1]))

BuildContextZeroBased(result) == BuildContextFromZero(result.context_chunks, 0, <<>>)

\* for (i, chunk) in result.context_chunks.iter().enumerate():
\* context.push_str(&format!(.., i + 1, ..)), from enumerate index i on.
RECURSIVE BuildContextFrom(_, _, _)
BuildContextFrom(cc, i, context) ==
    IF i >= Len(cc) THEN context
    ELSE BuildContextFrom(cc, i + 1, context \o Block(i + 1, cc[i + 1]))

\* build_context(&self, result): let mut context = String::new(); the loop;
\* context.
BuildContext(result) == BuildContextFrom(result.context_chunks, 0, <<>>)

\* The ContextChunk and SourceReference of a result of document 1.
ContextChunkOf(content, score) ==
    [content |-> content, score |-> score, source_type |-> "Manual",
     source_title |-> DocumentTitle(1)]

ContextChunks == {ContextChunkOf(c, sc) : c \in ContextContents, sc \in ContextScores}

QueryResults ==
    {[context_chunks |-> cc,
      sources |-> [i \in 1..Len(cc) |->
                     [title |-> cc[i].source_title, url |-> "None",
                      source_type |-> "Manual"]]] :
        cc \in UNION {[1..n -> ContextChunks] : n \in 0..MaxContextChunks}}

ContextInit ==
    /\ qresult \in QueryResults
    /\ contexts = <<>>

ContextIdle ==
    /\ qresult = EmptyResult
    /\ contexts = <<>>

\* One call of build_context(&result); the result is borrowed, not changed.
BuildContextCall ==
    /\ Len(contexts) < MaxContextCalls
    /\ contexts' = Append(contexts, BuildContext(qresult))
    /\ UNCHANGED qresult
    /\ UNCHANGED notContext

ContextNext == BuildContextCall

----------------------------------------------------------------------------
\* ZeroTrustConfig and ZeroTrustMiddlewareService (src/security/zero_trust.rs).
\* An IPv4 address is its four octets, an IPv6 address its eight groups; the
\* prefix of a network counts whole octets or groups.

\* Requests that pass through the middleware.
MaxGateRequests == 2

V4(a, b, c, d) == [family |-> 4, parts |-> <<a, b, c, d>>]
V6(parts) == [family |-> 6, parts |-> parts]
NoIp == [family |-> 0, parts |-> <<>>]

LoopbackV6 == V6(<<0, 0, 0, 0, 0, 0, 0, 1>>)
WireGuardV6 == V6(<<64768, 0, 0, 0, 0, 0, 0, 5>>)

\* The addresses of test_zero_trust_config, one next to the allowed range,
\* and two IPv6 addresses.
Ips ==
    {V4(127, 0, 0, 1), V4(10, 0, 0, 5), V4(10, 0, 1, 5), V4(8, 8, 8, 8),
     LoopbackV6, WireGuardV6}

\* IpAddr::is_loopback: 127.0.0.0/8 and ::1.
IsLoopback(ip) ==
    IF ip.family = 4 THEN ip.parts[1] = 127 ELSE ip = LoopbackV6

\* IpNetwork::contains: an address of the network's family whose prefix bits
\* are the network's.
Contains(net, ip) ==
    /\ net.family = ip.family
    /\ LET n == net.prefix \div (IF net.family = 4 THEN 8 ELSE 16)
       IN  SubSeq(ip.parts, 1, n) = SubSeq(net.parts, 1, n)

WireGuardNet == [family |-> 4, parts |-> <<10, 0, 0, 0>>, prefix |-> 24]
WireGuardNetV6 ==
    [family |-> 6, parts |-> <<64768, 0, 0, 0, 0, 0, 0, 0>>, prefix |-> 16]

\* ZeroTrustConfig values: the default one is enabled, allows localhost and
\* has the single network 10.0.0.0/24.
ZeroTrustConfigs ==
    [allowed_networks : {<<>>, <<WireGuardNet>>, <<WireGuardNet, WireGuardNetV6>>},
     enabled : BOOLEAN, allow_localhost : BOOLEAN]

\* A check that lets every loopback address in.
IsAllowedLoopbackAlways(cfg, ip) ==
    IF ~cfg.enabled THEN TRUE
    ELSE IF IsLoopback(ip) THEN TRUE
    ELSE \E k \in 1..Len(cfg.allowed_networks) : Contains(cfg.allowed_networks[k], ip)

\* ZeroTrustConfig::is_allowed
IsAllowed(cfg, ip) ==
    IF ~cfg.enabled THEN TRUE
    ELSE IF cfg.allow_localhost /\ IsLoopback(ip) THEN TRUE
    ELSE \E k \in 1..Len(cfg.allowed_networks) : Contains(cfg.allowed_networks[k], ip)

\* IpAddr::from_str on a text without ':' : the dotted IPv4 literals.
ParseV4 ==
    ("127.0.0.1" :> V4(127, 0, 0, 1)) @@ ("10.0.0.5" :> V4(10, 0, 0, 5))
        @@ ("10.0.1.5" :> V4(10, 0, 1, 5)) @@ ("8.8.8.8" :> V4(8, 8, 8, 8))

\* What realip_remote_addr() returns: nothing, or a text given here as its
\* pieces between the ':' characters. "ip:port" of the peer, a bare address
\* of a forwarding header, IPv6 texts with and without brackets, a host name
\* and the empty text.
RemoteTexts ==
    {<<a>> : a \in DOMAIN ParseV4} \cup {<<a, "4711">> : a \in DOMAIN ParseV4}
        \cup {<<"", "", "1">>, <<"[", "", "1]", "4711">>, <<"fd00", "", "5">>,
              <<"unknown">>, <<"">>}

GateRequests ==
    {[has_addr |-> FALSE, addr |-> <<"">>]}
        \cup {[has_addr |-> TRUE, addr |-> a] : a \in RemoteTexts}

\* .and_then(|ip| ip.split(':').next()).and_then(|ip| IpAddr::from_str(ip).ok())
ClientIp(req) ==
    IF ~req.has_addr THEN NoIp
    ELSE LET first == req.addr[1]
         IN  IF first \in DOMAIN ParseV4 THEN ParseV4[first] ELSE NoIp

GateInit ==
    /\ ztConfig \in ZeroTrustConfigs
    /\ gateReq = [has_addr |-> FALSE, addr |-> <<"">>]
    /\ gateOut = "none"
    /\ served = 0

GateIdle ==
    /\ ztConfig = [allowed_networks |-> <<WireGuardNet>>, enabled |-> TRUE,
                   allow_localhost |-> TRUE]
    /\ gateReq = [has_addr |-> FALSE, addr |-> <<"">>]
    /\ gateOut = "none"
    /\ served = 0

GateBegin(req) ==
    /\ served < MaxGateRequests
    /\ gateReq' = req
    /\ UNCHANGED ztConfig
    /\ UNCHANGED notGate

\* Some(ip) if config.is_allowed(&ip) => service.call(req).await
GatePass(req) ==
    /\ GateBegin(req)
    /\ ClientIp(req) # NoIp
    /\ IsAllowed(ztConfig, ClientIp(req))
    /\ served' = served + 1
    /\ gateOut' = "served"

\* Some(ip) => Err(ErrorForbidden("Access denied: IP not in allowed range"))
GateBlock(req) ==
    /\ GateBegin(req)
    /\ ClientIp(req) # NoIp
    /\ ~IsAllowed(ztConfig, ClientIp(req))
    /\ gateOut' = "forbidden_ip"
    /\ UNCHANGED served

\* None => Err(ErrorForbidden("Access denied: Unable to verify client"))
GateUnknown(req) ==
    /\ GateBegin(req)
    /\ ClientIp(req) = NoIp
    /\ gateOut' = "forbidden_unknown"
    /\ UNCHANGED served

GateNext ==
    \E req \in GateRequests :
        \/ GatePass(req)
        \/ GateBlock(req)
        \/ GateUnknown(req)

----------------------------------------------------------------------------
\* The callers of the engine: the API handlers search and ingest
\* (src/api/handlers.rs) and the CLI commands search and ingest pdf
\* (src/cli/commands.rs). Each runs one engine call from beginning to end;
\* the engine is the one of the sections above with RagConfig::default()'s
\* role played by RagChunkSize, RagChunkOverlap and SearchLimit.

\* Requests and commands of one run.
MaxFrontRequests == 2

\* Values of `limit` in a search request or command.
Limits == 0..(SearchLimit + 1)

\* Values of --format: the two named ones, the default and an unknown one.
Formats == {"json", "markdown", "table", "csv"}

NoResponse ==
    [op |-> "none", via |-> "none", format |-> "none", limit |-> 0,
     status |-> "none", results |-> <<>>, context |-> <<>>, chunks |-> 0,
     indexed |-> 0]

\* engine.query(text) when embed and search succeed: the possible results.
QueryAnswers(q) ==
    {BuildQueryResult(Filtered(SearchResults(raw))) :
        raw \in TopK(index, EmbedVec(QueryTexts[q]), SearchLimit)}

\* Document::new(title, content, source_type): chunks: Vec::new().
NewDocument(d) == [id |-> d, content |-> DocContent[d], chunks |-> <<>>]

\* ingest_document(document) when embed_batch and upsert_batch succeed: the
\* points it writes for its own, chunked, copy of the document.
IngestedPoints(n, document) ==
    LET cs == DocumentChunks(n, document.id)
    IN  IngestPoints(cs, EmbedBatch([i \in 1..Len(cs) |-> cs[i].content]))

Chunkable(d) == ~ChunkText(DocContent[d], RagChunkSize, RagChunkOverlap).panic

\* SearchResultItem of a ContextChunk; the CLI prints the same three values.
SearchResultItem(c) ==
    [content |-> c.content, score |-> c.score, source_type |-> c.source_type,
     source_title |-> c.source_title]

Items(cc) == [i \in 1..Len(cc) |-> SearchResultItem(cc[i])]

\* .iter().take(limit)
Take(seq, n) == SubSeq(seq, 1, Min(n, Len(seq)))

\* handlers::search: result.context_chunks.into_iter().map(..).collect():
\* req.limit is not read.
ApiResults(result, limit) == Items(result.context_chunks)

\* search_command: what each format prints of result.context_chunks.
CliResults(result, limit, format) ==
    IF format \in {"json", "markdown"} THEN Items(result.context_chunks)
    ELSE Take(Items(result.context_chunks), limit)

\* handlers::ingest and ingest_command: document.chunks.len() of the
\* caller's document, whose clone the engine chunked.
ReportedChunks(document, n) == Len(document.chunks)

FrontInit ==
    /\ index \in {{}, PriorPoints}
    /\ response = NoResponse
    /\ requests = 0

FrontIdle ==
    /\ response = NoResponse
    /\ requests = 0

FrontBegin ==
    /\ requests < MaxFrontRequests
    /\ requests' = requests + 1
    /\ UNCHANGED notFront

\* POST search: query succeeds, 200 with results and context.
ApiSearch(q, limit) ==
    /\ FrontBegin
    /\ \E result \in QueryAnswers(q) :
         response' = [NoResponse EXCEPT
                        !.op = "search", !.via = "api", !.format = "json",
                        !.limit = limit, !.status = "ok",
                        !.results = ApiResults(result, limit),
                        !.context = BuildContext(result)]
    /\ UNCHANGED index

\* POST search: query fails, ErrorInternalServerError.
ApiSearchFail(q, limit) ==
    /\ FrontBegin
    /\ response' = [NoResponse EXCEPT
                      !.op = "search", !.via = "api", !.format = "json",
                      !.limit = limit, !.status = "error"]
    /\ UNCHANGED index

\* search_command: query succeeds, the results are printed in the format.
CliSearch(q, limit, format) ==
    /\ FrontBegin
    /\ \E result \in QueryAnswers(q) :
         response' = [NoResponse EXCEPT
                        !.op = "search", !.via = "cli", !.format = format,
                        !.limit = limit, !.status = "ok",
                        !.results = CliResults(result, limit, format)]
    /\ UNCHANGED index

\* search_command: create_rag_engine or query fails, `?` ends the command.
CliSearchFail(q, limit, format) ==
    /\ FrontBegin
    /\ response' = [NoResponse EXCEPT
                      !.op = "search", !.via = "cli", !.format = format,
                      !.limit = limit, !.status = "error"]
    /\ UNCHANGED index

\* An ingest that succeeds, by handler `via`: the engine indexes the chunks
\* of its copy and the caller reports the count of its own document.
IngestOk(via, d) ==
    /\ FrontBegin
    /\ Chunkable(d)
    /\ LET document == NewDocument(d)
           points == IngestedPoints(requests + 1, document)
       IN  /\ index' = UpsertPoints(index, points)
           /\ response' = [NoResponse EXCEPT
                             !.op = "ingest", !.via = via, !.status = "ok",
                             !.chunks = ReportedChunks(document, requests + 1),
                             !.indexed = Cardinality(points)]

\* An ingest whose engine call returns Err: nothing is written.
IngestFail(via, d) ==
    /\ FrontBegin
    /\ Chunkable(d)
    /\ response' = [NoResponse EXCEPT
                      !.op = "ingest", !.via = via, !.status = "error"]
    /\ UNCHANGED index

\* An ingest whose document.chunk(..) panics.
IngestUnwinds(via, d) ==
    /\ FrontBegin
    /\ ~Chunkable(d)
    /\ response' = [NoResponse EXCEPT
                      !.op = "ingest", !.via = via, !.status = "panic"]
    /\ UNCHANGED index

\* POST ingest: 201 with IngestResponse { document_id, chunks }.
ApiIngest(d) == IngestOk("api", d)

\* POST ingest: ingest_document fails, ErrorInternalServerError.
ApiIngestFail(d) == IngestFail("api", d)

ApiIngestPanic(d) == IngestUnwinds("api", d)

\* ingest pdf <file>: ingest_pdf returns the document, "(N chunks)" is
\* printed.
CliIngestPdf(d) == IngestOk("cli", d)

\* ingest pdf <file>: process or ingest_document fails.
CliIngestPdfFail(d) == IngestFail("cli", d)

CliIngestPdfPanic(d) == IngestUnwinds("cli", d)

FrontNext ==
    \/ \E q \in QueryIds, limit \in Limits :
          \/ ApiSearch(q, limit)
          \/ ApiSearchFail(q, limit)
          \/ \E format \in Formats :
                \/ CliSearch(q, limit, format)
                \/ CliSearchFail(q, limit, format)
    \/ \E d \in DocIds :
          \/ ApiIngest(d)
          \/ ApiIngestFail(d)
          \/ ApiIngestPanic(d)
          \/ CliIngestPdf(d)
          \/ CliIngestPdfFail(d)
          \/ CliIngestPdfPanic(d)

----------------------------------------------------------------------------
\* The specifications.

\* The components outside the RAG core while a specification of the core runs.
RestIdle == DocNew /\ ContextIdle /\ GateIdle /\ FrontIdle

EmbedNext == \E t \in Tasks : EmbedStep(t)

EmbedSpecInit == EmbedInit /\ ChunkIdle /\ RagIdle /\ EngineIdle /\ StoreIdle /\ RestIdle

SpecEmbed == EmbedSpecInit /\ [][EmbedNext]_vars

\* A call that has begun goes on: the tokio runtime polls every ready task,
\* the lock hands its guards out in FIFO order, and each spawn_blocking
\* closure (model load, inference) ends. Whether a task calls is its choice.
EmbedProgress(t) ==
    \/ InitSkip(t)
    \/ InitLoad(t)
    \/ LoadOk(t)
    \/ LoadFail(t)
    \/ ReadRequest(t)
    \/ ReadAcquire(t)
    \/ Infer(t)
    \/ DropClone(t)
    \/ Return(t)

\* Callers of the specification with fairness; the other tasks never call.
NFairTasks == 2
FairTasks == 1..NFairTasks

EmbedFairNext == \E t \in FairTasks : EmbedStep(t)

SpecEmbedFair ==
    EmbedSpecInit /\ [][EmbedFairNext]_vars
        /\ \A t \in FairTasks : WF_vars(EmbedProgress(t))

ChunkSpecInit == ChunkInit /\ EmbedInit /\ RagIdle /\ EngineIdle /\ StoreIdle /\ RestIdle

SpecChunk == ChunkSpecInit /\ [][ChunkNext]_vars

RagSpecInit == RagInit /\ EmbedInit /\ ChunkIdle /\ EngineIdle /\ StoreIdle /\ RestIdle

SpecRag == RagSpecInit /\ [][RagNext]_vars

EngineSpecInit == EngineInit /\ ChunkIdle /\ EmbedInit /\ RagIdle /\ StoreIdle /\ RestIdle

SpecEngine == EngineSpecInit /\ [][EngineNext]_vars

\* The engine's calls are not part of the store specifications.
RagCallsIdle ==
    /\ kind = [t \in RTasks |-> "none"]
    /\ arg = [t \in RTasks |-> 0]
    /\ rpc = [t \in RTasks |-> "idle"]
    /\ rres = [t \in RTasks |-> "none"]
    /\ chunks = [t \in RTasks |-> <<>>]
    /\ embs = [t \in RTasks |-> <<>>]
    /\ found = [t \in RTasks |-> <<>>]
    /\ answer = [t \in RTasks |-> EmptyResult]
    /\ seen = [t \in RTasks |-> {}]

StoreNewSpecInit == StoreInit /\ RagCallsIdle /\ EmbedInit /\ ChunkIdle /\ EngineIdle /\ RestIdle

SpecStoreNew == StoreNewSpecInit /\ [][StoreNewNext]_vars

StoreSpecInit == StoreBuilt /\ RagCallsIdle /\ EmbedInit /\ ChunkIdle /\ EngineIdle /\ RestIdle

SpecStore == StoreSpecInit /\ [][StoreNext]_vars

DocSpecInit ==
    /\ DocInit /\ EmbedInit /\ RagIdle /\ EngineIdle /\ StoreIdle
    /\ ContextIdle /\ GateIdle /\ FrontIdle

SpecDocument == DocSpecInit /\ [][DocNext]_vars

ContextSpecInit ==
    /\ ContextInit /\ EmbedInit /\ ChunkIdle /\ RagIdle /\ EngineIdle /\ StoreIdle
    /\ DocNew /\ GateIdle /\ FrontIdle

SpecContext == ContextSpecInit /\ [][ContextNext]_vars

GateSpecInit ==
    /\ GateInit /\ EmbedInit /\ ChunkIdle /\ RagIdle /\ EngineIdle /\ StoreIdle
    /\ DocNew /\ ContextIdle /\ FrontIdle

SpecGate == GateSpecInit /\ [][GateNext]_vars

FrontSpecInit ==
    /\ FrontInit /\ RagCallsIdle /\ EmbedInit /\ ChunkIdle /\ EngineIdle /\ StoreIdle
    /\ DocNew /\ ContextIdle /\ GateIdle

SpecFront == FrontSpecInit /\ [][FrontNext]_vars

----------------------------------------------------------------------------
\* Claims about EmbeddingService (checked under SpecEmbed).

\* The run is over: every call returned, or the process died.
EmbedRunOver == aborted \/ \A t \in Tasks : pc[t] = "done"

\* No try_new failed and no inference on a live model failed.
LibraryCallsSucceed ==
    /\ loadAttempts = loadCount + (IF writer # None THEN 1 ELSE 0)
    /\ \A t \in Tasks : ~envFail[t]

\* C1: when N tasks make concurrent first calls on an uninitialized provider
\* and model load and inference succeed, the model is loaded exactly once and
\* all N calls return a successful result.
C1_OneLoadAllSucceed ==
    (EmbedRunOver /\ LibraryCallsSucceed) =>
        /\ loadCount = 1
        /\ ~aborted
        /\ \A t \in Tasks : eres[t] = "ok"

\* C2: no call duplicates or releases the model in the shared slot: there is
\* exactly one live model instance and no inference runs on a model that an
\* earlier call released.
C2_ModelNeverDuplicatedOrReleased ==
    /\ copies = 0
    /\ ~released
    /\ \A t \in Tasks : ~stale[t]

\* C3: once the model is initialized a call never waits for another task's
\* in-flight inference: no task stands at the head of the lock queue, kept
\* from its guard only by a reader whose inference has not finished.
C3_NeverWaitsForInference ==
    \A t, u \in Tasks :
        ~ /\ slot # None
          /\ queue # <<>>
          /\ Head(queue)[1] = t
          /\ writer = None
          /\ ~CanGrant(t, Head(queue)[2])
          /\ u \in readers
          /\ pc[u] = "spawned"

\* C4: a failed model load makes that call return an error and leaves the slot
\* absent and the lock free; a call that then finds the slot absent attempts
\* the load again, and when that load succeeds the slot holds the model, init
\* returns Ok and the call returns ok if its inference does.
C4_Step ==
    \A t \in Tasks :
        /\ (pc[t] = "loading" /\ loadRes'[t] = "fail") =>
              /\ pc'[t] = "done"
              /\ eres'[t] = "load_err"
              /\ slot' = None
              /\ writer' = None
        /\ (pc[t] = "init_wait" /\ pc'[t] # "init_wait" /\ slot = None) =>
              /\ pc'[t] = "loading"
              /\ loadAttempts' = loadAttempts + 1
        /\ (pc[t] = "loading" /\ loadRes'[t] = "ok") =>
              /\ slot' # None
              /\ writer' = None
              /\ pc'[t] = "init_ok"
        /\ (pc'[t] = "done" /\ loadRes'[t] = "ok" /\ ~stale'[t] /\ ~envFail'[t]) =>
              eres'[t] = "ok"

C4_LoadFailureIsRetried == [][C4_Step]_vars

\* A first load failed, a later call loaded the model and returned ok.
C4_Witness ==
    \E t, u \in Tasks :
        /\ loadRes[t] = "fail" /\ pc[t] = "done" /\ eres[t] = "load_err"
        /\ loadRes[u] = "ok" /\ pc[u] = "done" /\ eres[u] = "ok"
        /\ loadAttempts = 2

\* C28: under every interleaving of concurrent embed / embed_batch callers of
\* one provider, every call eventually returns, provided each model load and
\* each inference terminates: the lock protocol cannot deadlock and no caller
\* waits forever. A blocking closure that kills the process has not
\* terminated, so the calls of such a run are outside the proviso.
C28_EveryCallReturns ==
    \A t \in Tasks : (pc[t] = "init_wait") ~> (pc[t] = "done" \/ aborted)

\* Every task has called and returned, the later ones after waiting in the
\* lock queue behind the first one's load.
C28_Witness ==
    /\ ~aborted
    /\ \A t \in FairTasks : pc[t] = "done"
    /\ loadCount = 1
    /\ \E t \in FairTasks : loadRes[t] = "none" /\ eres[t] = "ok"

----------------------------------------------------------------------------
\* Claims about chunk_text (checked under SpecChunk).

\* Start offsets 0, step, 2*step, ... below len(text), in order.
ExpectedStarts(total, step) ==
    [i \in 1..((total + step - 1) \div step) |-> (i - 1) * step]

StartsOf(cs) == [i \in 1..Len(cs) |-> cs[i].start]

\* C10: chunk_text emits exactly one chunk for each start offset 0, step,
\* 2*step, ... below len(text), in that order, with step = max(1, chunk_size -
\* overlap); empty text yields no chunk, non-empty text at least one.
C10_OneChunkPerStart ==
    cState # "run" =>
        /\ cState = "done"
        /\ StartsOf(cChunks) =
             ExpectedStarts(Len(cText), Max(1, cSize - cOverlap))
        /\ (cText = <<>>) <=> (cChunks = <<>>)

\* Codepoint position p lies inside the span of one of the chunks.
Covered(cs, p) == \E i \in 1..Len(cs) : cs[i].start <= p /\ p < cs[i].end

\* C11: for non-empty text and overlap < chunk_size the chunk spans cover the
\* whole text: every codepoint position in [0, len(text)) lies inside at least
\* one span [start, end), also when windows are shrunk to a sentence boundary.
C11_SpansCoverText ==
    (cState = "done" /\ cText # <<>> /\ cOverlap < cSize) =>
        \A p \in 0..(Len(cText) - 1) : Covered(cChunks, p)

\* C12: for every text, multi-byte characters included, and overlap <
\* chunk_size, consecutive chunks i and i+1 overlap by at most `overlap`
\* codepoints: end_i - start_(i+1) <= overlap.
C12_OverlapAtMostConfigured ==
    cOverlap < cSize =>
        \A i \in 1..(Len(cChunks) - 1) :
            cChunks[i].end - cChunks[i + 1].start <= cOverlap

\* The window at `start` has its right edge at the end of the text.
ReachesTextEnd(start) == start + cSize >= Len(cText)

\* C13: for non-empty text and chunk_size >= 1 the last emitted chunk ends at
\* len(text), and every window whose right edge is the end of the text is
\* emitted unshrunk, sentence terminators or not.
C13_LastChunkEndsAtTextEnd ==
    (cState # "run" /\ cText # <<>> /\ cSize >= 1) =>
        /\ cState = "done"
        /\ cChunks # <<>>
        /\ cChunks[Len(cChunks)].end = Len(cText)
        /\ \A i \in 1..Len(cChunks) :
              ReachesTextEnd(cChunks[i].start) =>
                 /\ cChunks[i].end = Len(cText)
                 /\ cChunks[i].content =
                        Slice(cText, cChunks[i].start, Len(cText))

\* C25: chunk_text returns normally for every text and every chunk_size and
\* overlap, overlap >= chunk_size, chunk_size = 0 and multi-byte text
\* included: no out-of-range slice access occurs.
C25_ChunkTextReturns == cState # "panic"

\* The window of the chunk that starts at `start` is interior: its right edge
\* lies before the end of the text.
Interior(start) == start + cSize < Len(cText)

\* Codepoint positions (0-based) of the sentence terminators inside the
\* window that starts at `start`.
TerminatorsIn(start) ==
    {k \in start..(Min(start + cSize, Len(cText)) - 1) : IsTerminator(cText[k + 1])}

\* C26: offsets are codepoint offsets, also with multi-byte characters: every
\* emitted chunk lies within its window, start <= end <= min(start +
\* chunk_size, len(text)), its content is the codepoints text[start, end), and
\* when an interior window is shrunk the chunk's last character is the last
\* sentence terminator inside that window.
C26_OffsetsAreCodepoints ==
    \A i \in 1..Len(cChunks) :
        LET c == cChunks[i]
        IN  /\ c.start <= c.end
            /\ c.end <= Min(c.start + cSize, Len(cText))
            /\ c.content = Slice(cText, c.start, c.end)
            /\ (Interior(c.start) /\ c.end # c.start + cSize) =>
                  /\ c.end - 1 \in TerminatorsIn(c.start)
                  /\ \A k \in TerminatorsIn(c.start) : k <= c.end - 1

\* C27: an interior window is shrunk only when its last sentence terminator
\* is found at relative offset pos > 0; a window whose only terminator is its
\* first character, like a window with no terminator, is emitted unshrunk at
\* full window length.
C27_ShrinkOnlyForPositivePos ==
    \A i \in 1..Len(cChunks) :
        LET c == cChunks[i]
        IN  (Interior(c.start) /\ \A k \in TerminatorsIn(c.start) : k = c.start) =>
                /\ c.end = c.start + cSize
                /\ c.content = Slice(cText, c.start, c.start + cSize)

----------------------------------------------------------------------------
\* Claims about RagEngine::new and the chunks of a document (checked under
\* SpecEngine).

\* C14: every chunk produced for a document is non-empty: end > start for
\* every emitted chunk, for every text and every chunk_size and overlap an
\* engine can be constructed with.
C14_ChunksNonEmpty ==
    engine = "ok" =>
        \A i \in 1..Len(cChunks) : cChunks[i].end > cChunks[i].start

\* C15: RagEngine::new rejects a RagConfig with chunk_overlap >= chunk_size:
\* it fails with a configuration error, no engine is created, and no ingest
\* runs with such a config.
C15_InvalidConfigRejected ==
    /\ (engine # "none" /\ config.chunk_overlap >= config.chunk_size) =>
           engine = "err"
    /\ cState = "run" => cOverlap < cSize

----------------------------------------------------------------------------
\* Claims about RagEngine (checked under SpecRag).

Ingests == {t \in RTasks : kind[t] = "ingest"}
Queries == {t \in RTasks : kind[t] = "query"}

\* Points of the collection that carry a chunk id of call t.
PointsOf(idx, t) == {p \in idx : \E i \in 1..Len(chunks[t]) : p.id = chunks[t][i].id}

\* C5: within one ingest the index is mutated only by the single upsert_batch,
\* issued after embed_batch returned a vector for every chunk; an ingest that
\* fails in, or is abandoned during, chunking or embedding leaves the index as
\* it was, with no chunk of the document indexed.
C5_Step ==
    /\ index' # index =>
         \E t \in Ingests :
            /\ rpc[t] = "embedded" /\ rpc'[t] = "done" /\ rres'[t] = "ok"
            /\ Len(embs[t]) = Len(chunks[t])
    /\ \A t \in RTasks :
         (rres[t] = "none" /\ rres'[t] \in {"panic", "embed_err", "abandoned"}) =>
            /\ index' = index
            /\ kind'[t] = "ingest" => PointsOf(index', t) = {}

C5_IndexWrittenOnlyByFinalUpsert == [][C5_Step]_vars

\* An ingest of a document with chunks failed in embedding, another was
\* abandoned there, and the collection is empty as at the start.
C5_Witness ==
    \E t, u \in Ingests :
        /\ rres[t] = "embed_err" /\ chunks[t] # <<>>
        /\ rres[u] = "abandoned" /\ chunks[u] # <<>>
        /\ index = {}

\* C6: a successful ingest of a document of n chunks writes exactly n points
\* in its upsert_batch: point i has chunk i's id, the document id, chunk index
\* i, chunk i's content and the i-th vector embed_batch returned.
C6_Step ==
    \A t \in Ingests :
        (rpc[t] = "embedded" /\ rres'[t] = "ok") =>
            LET n == Len(chunks[t])
                written == index' \ index
            IN  /\ Cardinality(PointsOf(index', t)) = n
                /\ written = PointsOf(index', t)
                /\ \A i \in 1..n :
                     \E p \in index' :
                        /\ p.id = chunks[t][i].id
                        /\ p.document_id = arg[t]
                        /\ p.chunk_index = i - 1
                        /\ p.content = ChunkText(DocContent[arg[t]], RagChunkSize,
                                                 RagChunkOverlap).chunks[i].content
                        /\ p.vector = embs[t][i]

C6_OnePointPerChunk == [][C6_Step]_vars

\* An ingest of the three-chunk document succeeded and its points are there.
C6_Witness ==
    \E t \in Ingests :
        /\ rres[t] = "ok"
        /\ Len(chunks[t]) = 3
        /\ Cardinality(PointsOf(index, t)) = 3

\* C7: ingest of a document with empty text returns success without invoking
\* the embedding provider (no model load) or the index.
C7_EmptyIngestIsNoOp ==
    \A t \in Ingests :
        DocContent[arg[t]] = <<>> =>
            /\ rpc[t] = "done" => rres[t] = "ok"
            /\ (\A u \in RTasks \ {t} : rpc[u] = "idle") => loadAttempts = 0

\* Points of the collection whose payload names document d.
PointsOfDocument(d) == {p \in index : p.uuid /\ p.document_id = d}

BothIngested(t, u) ==
    /\ t # u
    /\ t \in Ingests /\ u \in Ingests
    /\ arg[t] = arg[u]
    /\ rres[t] = "ok" /\ rres[u] = "ok"

\* C8: ingest called twice with the same document leaves exactly one point
\* per chunk of that document.
C8_ReingestOnePointPerChunk ==
    \A t, u \in RTasks :
        BothIngested(t, u) =>
            Cardinality(PointsOfDocument(arg[t])) = Len(chunks[t])

\* The calls that ingested document d with success.
IngestedOk(d) == {t \in Ingests : arg[t] = d /\ rres[t] = "ok"}

\* C8 as amended: each ingest writes its points under chunk ids made by that
\* call, so a further ingest of a document replaces no point of an earlier one:
\* after k successful ingests the collection holds k points per chunk.
C8_ReingestAddsAnotherSet ==
    \A d \in DocIds :
        /\ \A t, u \in IngestedOk(d) :
              /\ Cardinality(PointsOf(index, t)) = Len(chunks[t])
              /\ Len(chunks[t]) = Len(chunks[u])
              /\ t # u => PointsOf(index, t) \cap PointsOf(index, u) = {}
        /\ \A t \in IngestedOk(d) :
              Cardinality(PointsOfDocument(d)) =
                  Cardinality(IngestedOk(d)) * Len(chunks[t])

\* The three-chunk document was ingested twice.
C8_Witness ==
    \E t, u \in RTasks :
        /\ BothIngested(t, u)
        /\ Len(chunks[t]) = 3
        /\ Cardinality(PointsOfDocument(arg[t])) = 6

\* The positions of `results` whose score reaches the threshold.
Kept(results) == {i \in 1..Len(results) : results[i].score >= SimilarityThreshold}

\* C9: query returns exactly the results of its one search (limit =
\* search_limit) whose score >= similarity_threshold, in the order the index
\* returned them: a score equal to the threshold is kept, a lower one dropped,
\* and no more than search_limit chunks are returned.
C9_ThresholdFilterAfterLimit ==
    \A t \in Queries :
        (rpc[t] = "done" /\ rres[t] = "ok") =>
            LET cc == answer[t].context_chunks
                keep == Kept(found[t])
                rank(i) == Cardinality({j \in keep : j <= i})
            IN  /\ Len(found[t]) <= SearchLimit
                /\ Len(cc) = Cardinality(keep)
                /\ Len(answer[t].sources) = Len(cc)
                /\ \A i \in keep :
                     /\ cc[rank(i)].content = found[t][i].content
                     /\ cc[rank(i)].score = found[t][i].score
                /\ \A i \in 1..Len(found[t]) :
                     /\ \E p \in index : p.id = found[t][i].id
                     /\ i > 1 => found[t][i].score <= found[t][i - 1].score

\* Points of the collection that score at least the threshold for call t.
AboveThreshold(t) ==
    {p \in index : p.uuid /\ Score(embs[t][1], p.vector) >= SimilarityThreshold}

\* One query kept a result at exactly the threshold and dropped a lower one;
\* another returned search_limit chunks while more points were above the
\* threshold.
C9_Witness ==
    \E t, u \in Queries :
        /\ rres[t] = "ok" /\ rres[u] = "ok"
        /\ \E i \in Kept(found[t]) : found[t][i].score = SimilarityThreshold
        /\ Len(answer[t].context_chunks) < Len(found[t])
        /\ Len(answer[u].context_chunks) = SearchLimit
        /\ Cardinality(AboveThreshold(u)) > SearchLimit

\* Position of a call in its pipeline: before the call, in embed / embed_batch
\* (init, then the inference), before search / upsert_batch, returned.
Rank(p) ==
    CASE p = "idle" -> 0
      [] p = "embed_init" -> 1
      [] p = "embed_run" -> 2
      [] p = "embedded" -> 3
      [] p = "done" -> 4

\* What call t holds, apart from its position.
CallState(t) == <<kind[t], arg[t], rres[t], chunks[t], embs[t], found[t], answer[t]>>

\* C16: within one ingest or query call each collaborator step (embed /
\* embed_batch, search, upsert_batch) is invoked at most once and in pipeline
\* order, and the first step that fails ends the call with that failure: no
\* step is retried and no later step runs.
C16_Step ==
    /\ \A t \in RTasks :
          /\ rpc'[t] # rpc[t] => Rank(rpc'[t]) > Rank(rpc[t])
          /\ (rres[t] = "none" /\ rres'[t] # "none") => rpc'[t] = "done"
          /\ rpc[t] = "done" => (rpc'[t] = "done" /\ CallState(t)' = CallState(t))
          /\ (rres[t] = "none" /\ rres'[t] = "embed_err") =>
                /\ rpc[t] \in {"embed_init", "embed_run"}
                /\ index' = index
                /\ found'[t] = <<>>
                /\ answer'[t] = EmptyResult
          /\ (rres[t] = "none" /\ rres'[t] = "index_err") =>
                /\ rpc[t] = "embedded"
                /\ index' = index
                /\ answer'[t] = EmptyResult
          /\ (rres[t] = "none" /\ rres'[t] = "ok") => rpc[t] = "embedded"
    /\ loadAttempts' # loadAttempts =>
          \E t \in RTasks : rpc[t] = "embed_init" /\ rpc'[t] # "embed_init"
    /\ index' # index =>
          \E t \in Ingests : rpc[t] = "embedded" /\ rpc'[t] = "done"

C16_PipelineOrderFirstFailureEnds == [][C16_Step]_vars

\* One ingest ended with the failure of its upsert_batch, and a query ended
\* with the failure of its embed after a load that failed.
C16_Witness ==
    \E t \in Ingests, u \in Queries :
        /\ rres[t] = "index_err" /\ rpc[t] = "done"
        /\ rres[u] = "embed_err" /\ rpc[u] = "done"
        /\ found[u] = <<>>
        /\ loadAttempts = 2 /\ loadCount = 1

\* The chunk contents of the document that call u ingested.
ChunkContents(u) == {chunks[u][i].content : i \in 1..Len(chunks[u])}

\* C17: after a successful ingest of a document, a query whose text equals
\* the content of one of its chunks returns at least one ContextChunk whose
\* content equals a chunk of the document and whose score is at least the
\* threshold, whatever the collection held before.
C17_RoundTrip ==
    \A t \in Queries :
        \A u \in seen[t] :
            (rres[t] = "ok" /\ QueryTexts[arg[t]] \in ChunkContents(u)) =>
                \E i \in 1..Len(answer[t].context_chunks) :
                    /\ answer[t].context_chunks[i].content \in ChunkContents(u)
                    /\ answer[t].context_chunks[i].score >= SimilarityThreshold

----------------------------------------------------------------------------
\* Claims about VectorStore (checked under SpecStore and SpecStoreNew).

BatchIds(batch) == {batch[k].id : k \in 1..Len(batch)}

\* The last point of the batch that carries id i.
LastOf(batch, i) ==
    batch[CHOOSE k \in 1..Len(batch) :
            /\ batch[k].id = i
            /\ \A j \in (k + 1)..Len(batch) : batch[j].id # i]

WithId(idx, i) == {p \in idx : p.id = i}

\* C18: upsert is insert-or-replace by point id: after the same id is upserted
\* twice with different content, by upsert or upsert_batch in any batch
\* grouping, the index holds exactly one point for that id and search returns
\* only the latest content for it.
C18_Step ==
    /\ (sop'.op = "upsert" /\ sop'.res = "ok") =>
          /\ \A i \in BatchIds(sop'.arg) :
                WithId(index', i) = {LastOf(sop'.arg, i)}
          /\ \A p \in index : p.id \notin BatchIds(sop'.arg) => p \in index'
          /\ \A p \in index' : p.id \notin BatchIds(sop'.arg) => p \in index
    /\ \A i \in StoreIds : Cardinality(WithId(index', i)) <= 1
    /\ (sop'.op = "search" /\ sop'.res = "ok") =>
          /\ \A k \in 1..Len(sop'.out) :
                \E p \in index' :
                    /\ p.id = sop'.out[k].id
                    /\ p.content = sop'.out[k].content
          /\ \A j, k \in 1..Len(sop'.out) :
                sop'.out[j].id = sop'.out[k].id => j = k

C19_Step ==
    (sop'.op = "delete" /\ sop'.res = "ok") =>
        /\ \A p \in index' : p.document_id # sop'.arg
        /\ \A p \in index : p.document_id # sop'.arg => p \in index'
        /\ index' \subseteq index
        /\ (\A p \in index : p.document_id # sop'.arg) => index' = index

C19_DeleteByDocumentFrame == [][C19_Step]_vars

\* A delete removed the points of its document and the point of another
\* document is still there.
C19_Witness ==
    /\ sop.op = "delete" /\ sop.res = "ok"
    /\ sop.gone > 0
    /\ \E p \in index : p.document_id # sop.arg

\* C20: ensure_collection is idempotent: it succeeds and leaves exactly one
\* collection of the configured name whether or not the collection existed
\* before, under repeated store constructions and when stores are constructed
\* concurrently for the same missing collection.
C20_EnsureCollectionIdempotent ==
    \A t \in STasks :
        (spc[t] = "done" /\ sres[t] \notin {"check_err", "create_err"}) =>
            /\ sres[t] = "ok"
            /\ collections = 1

----------------------------------------------------------------------------
\* Claims about the QueryResult of query (checked under SpecRag).

\* The search results of call t that the threshold filter retains, in order.
Retained(t) == SelectSeq(found[t], LAMBDA r : r.score >= SimilarityThreshold)

\* C22: query maps the retained search results one-to-one, position by
\* position, into ContextChunk / SourceReference pairs: context_chunks and
\* sources have the length and order of the retained results, each
\* ContextChunk carries its result's content and score unchanged, and its
\* title, like that of its SourceReference, is the label "Document <id>" of
\* the result's document.
C22_ResultsMappedOneToOne ==
    \A t \in Queries :
        (rpc[t] = "done" /\ rres[t] = "ok") =>
            LET kept == Retained(t)
                cc == answer[t].context_chunks
                ss == answer[t].sources
            IN  /\ Len(cc) = Len(kept)
                /\ Len(ss) = Len(kept)
                /\ \A i \in 1..Len(kept) :
                     /\ cc[i].content = kept[i].content
                     /\ cc[i].score = kept[i].score
                     /\ cc[i].source_title = <<"Document", kept[i].document_id>>
                     /\ ss[i].title = cc[i].source_title
                     /\ cc[i].source_type = "Manual"
                     /\ ss[i].source_type = "Manual"
                     /\ ss[i].url = "None"

\* A query returned chunks of two documents with different scores, after the
\* filter dropped no result.
C22_Witness ==
    \E t \in Queries :
        /\ rpc[t] = "done" /\ rres[t] = "ok"
        /\ Len(answer[t].context_chunks) = 2
        /\ answer[t].context_chunks[1].source_title
              # answer[t].context_chunks[2].source_title
        /\ answer[t].context_chunks[1].score
              # answer[t].context_chunks[2].score

----------------------------------------------------------------------------
\* Claims about Document (checked under SpecDocument).

\* What re-chunking must reproduce of a chunk.
ChunkShape(c) == <<c.chunk_index, c.content, c.start_char, c.end_char>>

\* C23: a new Document has an empty chunk list until chunk() is called, and
\* chunk() replaces the list instead of appending to it: calling chunk()
\* again with the same chunk_size and overlap yields a list of the same length
\* with the same (chunk_index, content, start, end) at every position, each
\* chunk referring to the document's id and having no embedding.
C23_RechunkReplaces ==
    /\ docCalls = 0 => docChunks = <<>>
    /\ docCalls >= 2 =>
          /\ Len(docChunks) = Len(docBefore)
          /\ \A i \in 1..Len(docChunks) :
                ChunkShape(docChunks[i]) = ChunkShape(docBefore[i])
    /\ \A i \in 1..Len(docChunks) :
          /\ docChunks[i].document_id = DocSelf
          /\ docChunks[i].embedding = None
          /\ docChunks[i].chunk_index = i - 1

\* A document of several chunks was chunked a second time: the list has the
\* length it had, under new chunk ids.
C23_Witness ==
    /\ docCalls = 2
    /\ Len(docChunks) >= 2
    /\ Len(docBefore) = Len(docChunks)
    /\ docChunks[1].id # docBefore[1].id

----------------------------------------------------------------------------
\* Claims about build_context (checked under SpecContext).

\* Two digits after the point of a score in hundredths below ten.
ScoreText(score) ==
    <<Digit(score \div 100), ".", Digit((score \div 10) % 10), Digit(score % 10)>>

\* What the block of source n holds before the chunk content.
Header(n, score) ==
    <<"[Source ", Digit(n), "] (score: ">> \o ScoreText(score) \o <<")\n">>

\* Length of the block of chunk c of a result of fewer than ten chunks.
BlockLen(c) == 8 + Len(c.content) + 1

\* Where the blocks before block i end.
RECURSIVE BlockOffset(_, _)
BlockOffset(cc, i) ==
    IF i = 1 THEN 0 ELSE BlockOffset(cc, i - 1) + BlockLen(cc[i - 1])

\* C21: build_context is a deterministic function of the QueryResult: the
\* string is exactly one block per context chunk, in the order of
\* context_chunks, block i (from 1) being the header with source index i and
\* the chunk's score to two decimals, then the chunk's content and a blank
\* line; a result without chunks gives the empty string, and every call on
\* the same result returns the same string.
C21_ContextIsBlocksInOrder ==
    \A k \in 1..Len(contexts) :
        LET cc == qresult.context_chunks
            out == contexts[k]
        IN  /\ Len(out) = BlockOffset(cc, Len(cc) + 1)
            /\ (cc = <<>>) => (out = <<>>)
            /\ \A i \in 1..Len(cc) :
                 SubSeq(out, BlockOffset(cc, i) + 1, BlockOffset(cc, i + 1))
                    = Header(i, cc[i].score) \o cc[i].content \o <<"\n\n">>
            /\ out = contexts[1]

\* build_context ran twice on a result of two chunks with different scores
\* and contents, one content itself looking like a header.
C21_Witness ==
    /\ Len(contexts) = 2
    /\ Len(qresult.context_chunks) = 2
    /\ qresult.context_chunks[1].score = 7
    /\ qresult.context_chunks[2].score = 100
    /\ qresult.context_chunks[1].content = <<"[Source ", "1", "]">>
    /\ qresult.context_chunks[2].content = <<"a", "\n">>

----------------------------------------------------------------------------
\* Claims about the zero-trust middleware (checked under SpecGate).

\* is_allowed as the disjunction of its three grounds.
AllowedGrounds(cfg, ip) ==
    \/ ~cfg.enabled
    \/ cfg.allow_localhost /\ IsLoopback(ip)
    \/ \E k \in 1..Len(cfg.allowed_networks) : Contains(cfg.allowed_networks[k], ip)

\* C24: a request reaches the wrapped service only if its client IP could
\* be determined and is_allowed holds for it, is_allowed(ip) being true
\* exactly when enforcement is disabled, or allow_localhost is set and ip is
\* loopback, or ip lies in one of the allowed networks; every other request
\* is answered with a forbidden error and the wrapped service is not called.
C24_Step ==
    /\ \A ip \in Ips : IsAllowed(ztConfig, ip) = AllowedGrounds(ztConfig, ip)
    /\ ztConfig' = ztConfig
    /\ LET ip == ClientIp(gateReq')
           admitted == gateReq'.has_addr /\ ip \in Ips /\ AllowedGrounds(ztConfig, ip)
       IN  /\ served' \in {served, served + 1}
           /\ (served' = served + 1) => admitted
           /\ ~admitted =>
                /\ served' = served
                /\ gateOut' \in {"forbidden_ip", "forbidden_unknown"}

C24_OnlyAllowedReachService == [][C24_Step]_vars

\* With enforcement on and localhost not allowed, one request was passed to
\* the wrapped service and the next one, from 127.0.0.1, was refused.
C24_Witness ==
    /\ ztConfig.enabled /\ ~ztConfig.allow_localhost
    /\ served = 1
    /\ gateOut = "forbidden_ip"
    /\ ClientIp(gateReq) = V4(127, 0, 0, 1)

----------------------------------------------------------------------------
\* Claims about the API handlers and CLI commands (checked under SpecFront).

\* C29: the chunk count reported after a successful ingest (IngestResponse
\* chunks of the API handler, the "(N chunks)" line of the CLI pdf ingest,
\* the chunks of the Document ingest_pdf returns) equals the number of chunks
\* that were indexed for the document.
C29_ReportedChunksAreIndexedChunks ==
    (response.op = "ingest" /\ response.status = "ok") =>
        response.chunks = response.indexed

\* C30: the limit of a search is the maximum number of results returned, by
\* the API search handler and by the CLI search command in every format.
C30_LimitBoundsResults ==
    (response.op = "search" /\ response.status = "ok") =>
        Len(response.results) <= response.limit
====
